---------------------------- MODULE Spec2Model ----------------------------
(***************************************************************************)
(* A model of the Stack Novation Launchpad trigger plugin                  *)
(* (src/StackLaunchpadTrigger.cpp, held as src/unnamed/part_002).          *)
(*                                                                         *)
(* The program has two threads: the host's UI thread, which creates,       *)
(* loads, configures and destroys triggers and applies the global button   *)
(* settings, and the MIDI worker thread (stack_launchpad_trigger_thread).  *)
(* The shared state is the trigger list, the static LaunchpadDevice with   *)
(* its 9x9 button array, the global button table, thread_running and       *)
(* list_mutex.  stack_log calls are not modelled.                          *)
(***************************************************************************)
EXTENDS Integers, Sequences, FiniteSets, TLC

VARIABLES
    trigger_list,     \* std::list<StackLaunchpadTrigger*>: sequence of trigger ids
    trig,             \* the fields of each trigger object
    buttons,          \* device.buttons[0..80]
    dev,              \* device.handle_in, handle_out and ready
    global_buttons,   \* global_buttons[0..5]
    thread_running,   \* bool thread_running
    midi_thread,      \* the std::thread object: "none" or "joinable"
    threads,          \* number of worker threads that have started and not yet returned
    list_mutex,       \* owner of list_mutex: "free", "ui" or "worker"
    wpc,              \* worker: position in stack_launchpad_trigger_thread
    wdev,             \* worker: its local `device` pointer is non-NULL
    wev,              \* worker: the event being dispatched
    wk,               \* worker: index of the trigger the dispatch loop is at
    poll_result,      \* worker: sign of the last result of poll(), 0 once it is dead
    upc,              \* UI thread: position inside the operation in progress
    uop,              \* UI thread: the operation in progress and its arguments
    clock,            \* stack_get_clock_time()
    lastMsg,          \* the last message the step just taken wrote to handle_out
    fired,            \* triggers whose action ran during the current event
    debounced,        \* triggers for which the current press was debounced
    keys,             \* number of global key / stop-all actions run during the current event
    oob,              \* the step just taken accessed device.buttons outside [0..80]
    uac,              \* the step just taken used a closed or NULL rawmidi handle
    crashed,          \* "no", or why the process has died
    budget,           \* how many operations and events the environment has issued
    scenario,         \* what the environment does: "faults" or "events"
    pf                \* harness for the pure functions and the grid operations

vars == << trigger_list, trig, buttons, dev, global_buttons, thread_running,
           midi_thread, threads, list_mutex, wpc, wdev, wev, wk, poll_result,
           upc, uop, clock, lastMsg, fired, debounced, keys, oob, uac, crashed, budget, scenario, pf >>

---------------------------------------------------------------------------
(* Program constants *)

Rows == 9
Columns == 9
GLOBAL_BUTTON_COUNT == 6
DebounceInterval == 1000
MIDI_NOTE_ON == 144
MIDI_CONTROL_CHANGE == 176

\* unsigned char buf[32] of the worker
BufSize == 32

ButtonCount == Rows * Columns
ButtonIdx == 0 .. (ButtonCount - 1)

---------------------------------------------------------------------------
(* Bounds of the model *)

MaxClaims == 2      \* JSON loads and accepted config dialogs
MaxSettings == 1    \* global settings dialogs answered with OK
MaxEvents == 2      \* messages read from the device
MaxPresses == 3     \* messages read from the device in SpecPresses
MaxMessages == 10   \* chunk harness: complete messages in one chunk
MaxCalls == 5       \* grid harness: calls of add_button / remove_button
MaxCoord == 9       \* address harness: largest column and row converted

TIDs == {"A", "B"}

---------------------------------------------------------------------------
(* C integer conversions *)

\* uint8_t -> int8_t (LaunchpadButton.r/g/b and the int8_t parameters of add_button)
ToInt8(x) == IF x > 127 THEN x - 256 ELSE x

\* int8_t or int -> uint8_t
ToUInt8(x) == ((x % 256) + 256) % 256

\* C integer division truncates towards zero
CDiv(a, b) == IF a >= 0 THEN a \div b ELSE 0 - ((0 - a) \div b)

---------------------------------------------------------------------------
(* Address mapping *)

address_to_col_row(address) ==
    [ column |-> ToUInt8(address % 10),
      row    |-> ToUInt8(10 - CDiv(address - 1, 10)) ]

\* col_row_to_address with the row counted from 9
col_row_to_address_rowoff(column, row) == ToUInt8((9 - row) * 10 + column)

col_row_to_address(column, row) == ToUInt8((10 - row) * 10 + column)

\* stack_launchpad_trigger_get_button: NULL only when column or row is too large
get_button(column, row) ==
    IF column > Columns \/ row > Rows
    THEN [ null |-> TRUE,  idx |-> 0 ]
    ELSE [ null |-> FALSE, idx |-> (row - 1) * Rows + column - 1 ]

---------------------------------------------------------------------------
(* The memory the C functions below work on.  Each function is an operator   *)
(* from such a record G (and the device fields d it reads) to the record     *)
(* after the call:                                                           *)
(*   buttons, trig : the button array and the trigger objects                *)
(*   msg           : the last message written to handle_out                  *)
(*   out           : all the messages written to handle_out, in order        *)
(*   oob           : an access outside buttons[0..80] happened               *)
(*   uac           : a handle that is not open was written to                *)
(*   segv          : a NULL LaunchpadButton pointer was dereferenced         *)

Black == << 0, 0, 0 >>

ButtonColor(b) == << b.r, b.g, b.b >>

NoMsg == [ kind |-> "none", bytes |-> << >> ]

\* the set-color message with the color components not halved
encode_set_color_nohalve(column, row, r, g, b) ==
    << 240, 0, 32, 41, 2, 12, 3, 3, col_row_to_address(column, row), r, g, b, 247 >>

\* the set-color message with a zero byte in front of the address
encode_set_color_padded(column, row, r, g, b) ==
    << 240, 0, 32, 41, 2, 12, 3, 3, 0,
       col_row_to_address(column, row), r \div 2, g \div 2, b \div 2, 247 >>

\* output[13] of stack_launchpad_trigger_midi_set_color (r, g, b are uint8_t)
encode_set_color(column, row, r, g, b) ==
    << 240, 0, 32, 41, 2, 12, 3, 3,
       col_row_to_address(column, row), r \div 2, g \div 2, b \div 2, 247 >>

\* one step of a write to a LaunchpadButton through the pointer p
StoreColor(G, p, r, g, b) ==
    IF p.null THEN [ G EXCEPT !.segv = TRUE ]
    ELSE IF p.idx \in ButtonIdx
    THEN [ G EXCEPT !.buttons[p.idx].r = ToInt8(r),
                    !.buttons[p.idx].g = ToInt8(g),
                    !.buttons[p.idx].b = ToInt8(b) ]
    ELSE [ G EXCEPT !.oob = TRUE ]

AddUsage(G, p, n) ==
    IF p.null THEN [ G EXCEPT !.segv = TRUE ]
    ELSE IF p.idx \in ButtonIdx
    THEN [ G EXCEPT !.buttons[p.idx].usage_count = @ + n ]
    ELSE [ G EXCEPT !.oob = TRUE ]

\* snd_rawmidi_write + snd_rawmidi_drain on d.handle_out
WriteOut(G, d, kind, bytes) ==
    [ G EXCEPT !.msg = [ kind |-> kind, bytes |-> bytes ],
               !.out = Append(@, bytes),
               !.uac = @ \/ d.handle_out # "open" ]

midi_set_color(G, d, column, row, r, g, b) ==
    IF G.segv THEN G
    ELSE LET G1 == StoreColor(G, get_button(column, row), r, g, b)
         IN  IF G1.segv \/ ~d.ready THEN G1
             ELSE WriteOut(G1, d, "set", encode_set_color(column, row, r, g, b))

\* add_button without the loop over trigger_list
SyncTriggerColors_none(tr, list, column, row, r, g, b) == tr

\* the loop of add_button over trigger_list: last writer wins
SyncTriggerColors(tr, list, column, row, r, g, b) ==
    [ t \in DOMAIN tr |->
        IF (\E i \in 1 .. Len(list) : list[i] = t)
           /\ tr[t].column = column /\ tr[t].row = row
        THEN [ tr[t] EXCEPT !.r = ToUInt8(r), !.g = ToUInt8(g), !.b = ToUInt8(b) ]
        ELSE tr[t] ]

\* r, g, b arrive as uint8_t and are converted to the int8_t parameters
add_button(G, d, list, column, row, r, g, b) ==
    IF G.segv THEN G
    ELSE LET p  == get_button(column, row)
             r8 == ToInt8(r)
             g8 == ToInt8(g)
             b8 == ToInt8(b)
             G1 == IF p.null THEN G
                   ELSE midi_set_color(AddUsage(G, p, 1), d, column, row,
                                       ToUInt8(r8), ToUInt8(g8), ToUInt8(b8))
         IN  IF G1.segv THEN G1
             ELSE [ G1 EXCEPT !.trig =
                       SyncTriggerColors(@, list, column, row, r8, g8, b8) ]

\* remove_button without the call of midi_set_color when the count reaches zero
remove_button_noblack(G, d, column, row) ==
    IF G.segv \/ column = 0 \/ row = 0 \/ column > Columns \/ row > Rows THEN G
    ELSE LET p == get_button(column, row)
         IN  IF p.null \/ G.buttons[p.idx].usage_count <= 0 THEN G
             ELSE AddUsage(G, p, -1)

\* remove_button without the test of usage_count > 0
remove_button_unguarded(G, d, column, row) ==
    IF G.segv \/ column = 0 \/ row = 0 \/ column > Columns \/ row > Rows THEN G
    ELSE LET p == get_button(column, row)
         IN  IF p.null THEN G
             ELSE LET G1 == AddUsage(G, p, -1)
                  IN  IF G1.buttons[p.idx].usage_count = 0
                      THEN midi_set_color(G1, d, column, row, 0, 0, 0)
                      ELSE G1

remove_button(G, d, column, row) ==
    IF G.segv \/ column = 0 \/ row = 0 \/ column > Columns \/ row > Rows THEN G
    ELSE LET p == get_button(column, row)
         IN  IF p.null \/ G.buttons[p.idx].usage_count <= 0 THEN G
             ELSE LET G1 == AddUsage(G, p, -1)
                  IN  IF G1.buttons[p.idx].usage_count = 0
                      THEN midi_set_color(G1, d, column, row, 0, 0, 0)
                      ELSE G1

\* the record of one button with column and row exchanged in the address
RefreshRecord_swapped(bs, column, row) ==
    LET b == bs[get_button(column, row).idx]
    IN  << 3, col_row_to_address(row, column),
           ToUInt8(CDiv(b.r, 2)), ToUInt8(CDiv(b.g, 2)), ToUInt8(CDiv(b.b, 2)) >>

\* the 5-byte record of one button in the refresh message; button->r / 2 is a
\* signed division whose result is stored in an unsigned char
RefreshRecord(bs, column, row) ==
    LET b == bs[get_button(column, row).idx]
    IN  << 3, col_row_to_address(column, row),
           ToUInt8(CDiv(b.r, 2)), ToUInt8(CDiv(b.g, 2)), ToUInt8(CDiv(b.b, 2)) >>

RECURSIVE RefreshRecords(_, _)
RefreshRecords(bs, n) ==
    IF n = 0 THEN << >>
    ELSE RefreshRecords(bs, n - 1)
         \o RefreshRecord(bs, ((n - 1) % Columns) + 1, ((n - 1) \div Columns) + 1)

\* output[413] of stack_launchpad_trigger_midi_refresh_colors
encode_full_refresh(bs) ==
    << 240, 0, 32, 41, 2, 12, 3 >> \o RefreshRecords(bs, ButtonCount) \o << 247 >>

midi_refresh_colors(G, d) ==
    IF G.segv \/ ~d.ready THEN G
    ELSE WriteOut(G, d, "refresh", encode_full_refresh(G.buttons))

midi_all_off(G, d) ==
    midi_refresh_colors(
        [ G EXCEPT !.buttons = [ i \in ButtonIdx |->
                                   [ G.buttons[i] EXCEPT !.r = 0, !.g = 0, !.b = 0 ] ] ],
        d)

\* the six add_button calls of update_buttons for a cue-list trigger
RECURSIVE AddGlobalButtons(_, _, _, _, _)
AddGlobalButtons(G, d, list, gb, i) ==
    IF i = GLOBAL_BUTTON_COUNT THEN G
    ELSE AddGlobalButtons(
             add_button(G, d, list, gb[i].column, gb[i].row, gb[i].r, gb[i].g, gb[i].b),
             d, list, gb, i + 1)

\* the loop of update_buttons over trigger_list, from position k on
RECURSIVE UpdateTriggers(_, _, _, _, _)
UpdateTriggers(G, d, list, gb, k) ==
    IF k > Len(list) \/ G.segv THEN G
    ELSE LET t  == G.trig[list[k]]
             G1 == AddUsage(G, get_button(t.column, t.row), 1)
             G2 == midi_set_color(G1, d, t.column, t.row, t.r, t.g, t.b)
             G3 == IF t.use_for_cue_list THEN AddGlobalButtons(G2, d, list, gb, 0) ELSE G2
         IN  UpdateTriggers(G3, d, list, gb, k + 1)

\* update_buttons without the reset loop
update_buttons_noreset(G, d, list, gb) ==
    UpdateTriggers(G, d, list, gb, 1)

update_buttons(G, d, list, gb) ==
    UpdateTriggers(
        [ G EXCEPT !.buttons = [ i \in ButtonIdx |->
              [ G.buttons[i] EXCEPT !.r = 0, !.g = 0, !.b = 0, !.usage_count = 0 ] ] ],
        d, list, gb, 1)

---------------------------------------------------------------------------
(* The device *)

\* what snd_card_next .. snd_rawmidi_poll_descriptors can answer in get_device:
\*   notfound : get_device_address returns false
\*   openfail : snd_rawmidi_open returns a negative error code
\*   nopoll   : the handles open, snd_rawmidi_poll_descriptors returns 0
\*   ok       : the handles open and a poll descriptor is returned
GetDeviceOutcomes == { "notfound", "openfail", "nopoll", "ok" }

\* stack_launchpad_trigger_get_device; the whole body runs with list_mutex held.
\* An error of snd_rawmidi_open is negative, so `result > 0` never holds and the
\* code goes on to snd_rawmidi_poll_descriptors with the handles it had before:
\* a use of a handle that is not open, after which the count is whatever that
\* call produced (junkcount).
get_device(G, d, list, gb, create, outcome, junkcount) ==
    LET rd == [ d EXCEPT !.ready = TRUE ]
    IN  IF d.ready \/ ~create \/ outcome = "notfound"
        THEN [ dev |-> d, G |-> G ]
        ELSE IF outcome = "openfail"
        THEN IF junkcount = 0
             THEN [ dev |-> d, G |-> [ G EXCEPT !.uac = TRUE ] ]
             ELSE [ dev |-> rd,
                    G   |-> update_buttons([ G EXCEPT !.uac = TRUE ], rd, list, gb) ]
        ELSE IF outcome = "nopoll"
        THEN [ dev |-> [ d EXCEPT !.handle_in = "closed", !.handle_out = "closed" ],
               G   |-> G ]
        ELSE LET od == [ rd EXCEPT !.handle_in = "open", !.handle_out = "open" ]
             IN  [ dev |-> od, G |-> update_buttons(G, od, list, gb) ]

\* stack_launchpad_trigger_close_device; it runs without list_mutex, on the
\* worker and in destroy.  A handle that is neither NULL nor open is closed a
\* second time.
close_device(G, d) ==
    LET G1 == IF d.handle_out # "null"
              THEN [ midi_all_off(G, d) EXCEPT !.uac = @ \/ d.handle_out # "open" ]
              ELSE G
        G2 == IF d.handle_in # "null"
              THEN [ G1 EXCEPT !.uac = @ \/ d.handle_in # "open" ]
              ELSE G1
    IN  [ dev |-> [ handle_in |-> "null", handle_out |-> "null", ready |-> FALSE ],
          G   |-> G2 ]

---------------------------------------------------------------------------
(* Initial state *)

NewTrigger ==
    [ column |-> 0, row |-> 0, r |-> 0, g |-> 0, b |-> 0,
      on_pressed |-> TRUE, use_for_cue_list |-> FALSE ]

GlobalButton(column, row, r, g, b, keymap) ==
    [ column |-> column, row |-> row, r |-> r, g |-> g, b |-> b, keymap |-> keymap ]

\* keymap: the GDK key of the entry; "Escape" is the stop-all entry
DefaultGlobalButtons ==
    [ i \in 0 .. (GLOBAL_BUTTON_COUNT - 1) |->
        CASE i = 0 -> GlobalButton(1, 1, 255, 255, 255, "Up")
          [] i = 1 -> GlobalButton(2, 1, 255, 255, 255, "Down")
          [] i = 2 -> GlobalButton(3, 1, 255, 255, 255, "Left")
          [] i = 3 -> GlobalButton(4, 1, 255, 255, 255, "Right")
          [] i = 4 -> GlobalButton(9, 9, 0, 255, 0, "space")
          [] OTHER -> GlobalButton(9, 6, 255, 0, 0, "Escape") ]

ZeroButton == [ last_press_time |-> 0, usage_count |-> 0, r |-> 0, g |-> 0, b |-> 0 ]

ClosedDevice == [ handle_in |-> "null", handle_out |-> "null", ready |-> FALSE ]

ReadyDevice == [ handle_in |-> "open", handle_out |-> "open", ready |-> TRUE ]

NoEvent == [ column |-> 0, row |-> 0, pressure |-> 0 ]

NoOp == [ op |-> "none", t |-> "A", arg |-> NewTrigger ]

NoBudget == [ claims |-> 0, settings |-> 0, events |-> 0 ]

StartTime == 5000

\* the program before the first call
InitProgram ==
    /\ trigger_list = << >>
    /\ trig = [ t \in TIDs |-> NewTrigger ]
    /\ buttons = [ i \in ButtonIdx |-> ZeroButton ]
    /\ global_buttons = DefaultGlobalButtons
    /\ thread_running = FALSE
    /\ midi_thread = "none"
    /\ threads = 0
    /\ list_mutex = "free"
    /\ wpc = "none"
    /\ wdev = FALSE
    /\ wev = NoEvent
    /\ wk = 0
    /\ poll_result = 0
    /\ upc = "idle"
    /\ uop = NoOp
    /\ clock = StartTime
    /\ lastMsg = NoMsg
    /\ fired = { }
    /\ debounced = { }
    /\ keys = 0
    /\ oob = FALSE
    /\ uac = FALSE
    /\ crashed = "no"

\* everything but the device, the environment and the harness
InitSystem ==
    /\ InitProgram
    /\ budget = NoBudget

\* the environment either lets the device fail (discovery, open, poll
\* descriptor, read) or lets it work and send button events
Scenarios == { "faults", "events" }

\* how many button events a working device sends; "presses" is the
\* environment of SpecPresses below
EventLimit == IF scenario = "presses" THEN MaxPresses ELSE MaxEvents

NoHarness == [ kind |-> "none" ]

Init ==
    /\ InitSystem
    /\ dev = ClosedDevice
    /\ scenario \in Scenarios
    /\ pf = NoHarness

\* the memory a call starts from, and the state after the call
Mem == [ buttons |-> buttons, trig |-> trig, msg |-> NoMsg, out |-> << >>,
         oob |-> FALSE, uac |-> FALSE, segv |-> FALSE ]

Commit(G) ==
    /\ buttons' = G.buttons
    /\ trig' = G.trig
    /\ lastMsg' = G.msg
    /\ oob' = G.oob
    /\ uac' = G.uac
    /\ crashed' = IF G.segv THEN "segv" ELSE "no"

\* a step that calls none of the functions above
NoCall ==
    /\ lastMsg' = NoMsg
    /\ oob' = FALSE
    /\ uac' = FALSE
    /\ UNCHANGED << buttons, trig, crashed >>

InList(t) == \E i \in 1 .. Len(trigger_list) : trigger_list[i] = t

---------------------------------------------------------------------------
(* Inputs *)

Green == << 0, 255, 0 >>
Orange == << 255, 128, 0 >>

TriggerInput(column, row, color, on_pressed, use_for_cue_list) ==
    [ column |-> column, row |-> row, r |-> color[1], g |-> color[2], b |-> color[3],
      on_pressed |-> on_pressed, use_for_cue_list |-> use_for_cue_list ]

\* what the config dialog can be answered with (column and row pass its 1..9 test)
ConfigInputs ==
    { TriggerInput(3, 4, Orange, FALSE, FALSE),
      TriggerInput(1, 1, Green, TRUE, TRUE),
      TriggerInput(1, 1, Green, TRUE, FALSE) }

\* what a saved trigger can hold; a document without "row" and "column" leaves
\* the position of the new trigger at (0,0), and "column" is taken as it is
JsonInputs ==
    { TriggerInput(3, 4, Green, TRUE, FALSE),
      TriggerInput(0, 0, Green, TRUE, FALSE),
      TriggerInput(10, 4, Green, TRUE, FALSE) }

\* the tables the global settings dialog can be answered with: entry 0 ("Up")
\* moved to (3,4)
SettingsInputs ==
    { [ DefaultGlobalButtons EXCEPT ![0] = GlobalButton(3, 4, 255, 255, 255, "Up") ] }

\* tables with an entry the dialog refuses: "Down" with column 0, "StopAll"
\* with row 10; in both "Up" is moved to (5,5) and read before the bad entry
RejectedInputs ==
    { [ DefaultGlobalButtons EXCEPT ![0] = GlobalButton(5, 5, 255, 255, 255, "Up"),
                                    ![1] = [ @ EXCEPT !.column = 0 ] ],
      [ DefaultGlobalButtons EXCEPT ![0] = GlobalButton(5, 5, 255, 255, 255, "Up"),
                                    ![5] = [ @ EXCEPT !.row = 10 ] ] }

\* what the dialog is answered with when OK is pressed
DialogAnswers ==
    IF scenario = "presses" THEN SettingsInputs \cup RejectedInputs ELSE SettingsInputs

\* stack_launchpad_trigger_get_global_button_from_ui on entry i of the copy
\* nb: column, then row, must be in 1..9 before anything is written
get_global_button_from_ui(nb, i, e) ==
    IF e.column < 1 \/ e.column > 9 THEN [ ok |-> FALSE, nb |-> nb ]
    ELSE IF e.row < 1 \/ e.row > 9 THEN [ ok |-> FALSE, nb |-> nb ]
    ELSE [ ok |-> TRUE,
           nb |-> [ nb EXCEPT ![i] = [ @ EXCEPT !.r = e.r, !.g = e.g, !.b = e.b,
                                                !.column = e.column, !.row = e.row ] ] ]

\* the chain of || over the six entries, from entry i on: it stops at the
\* first entry refused
RECURSIVE ReadEntries(_, _, _)
ReadEntries(nb, sub, i) ==
    IF i = GLOBAL_BUTTON_COUNT THEN [ ok |-> TRUE, nb |-> nb ]
    ELSE LET rd == get_global_button_from_ui(nb, i, sub[i])
         IN  IF rd.ok THEN ReadEntries(rd.nb, sub, i + 1) ELSE rd

\* a variant that reads the entries into global_buttons itself
global_settings_read_inplace(gb, sub) ==
    LET rd == ReadEntries(gb, sub, 0)
    IN  [ ok |-> rd.ok, gb |-> rd.nb ]

\* the OK branch of stack_launchpad_trigger_global_settings_clicked up to the
\* memcpy back: new_buttons is a copy of global_buttons, and global_buttons
\* is overwritten only if all six entries were accepted
global_settings_read(gb, sub) ==
    LET rd == ReadEntries(gb, sub, 0)
    IN  [ ok |-> rd.ok, gb |-> IF rd.ok THEN rd.nb ELSE gb ]

\* the answers of the device to get_device
DeviceAnswers(create) ==
    IF dev.ready \/ ~create
    THEN { << "ok", 0 >> }
    ELSE IF scenario # "faults"
    THEN { << "notfound", 0 >>, << "ok", 0 >> }
    ELSE { << "notfound", 0 >>, << "openfail", 0 >>, << "openfail", 1 >>,
           << "nopoll", 0 >>, << "ok", 0 >> }

---------------------------------------------------------------------------
(* std::thread *)

\* midi_thread.join() returns once the thread function has returned
JoinCompletes_nowait == TRUE

JoinCompletes == threads = 0

\* a create that never starts the thread
MustStartThread_never == FALSE

\* the test of thread_running in create
MustStartThread == ~thread_running

---------------------------------------------------------------------------
(* The UI thread *)

\* in the "events" scenario the triggers are set up before the first button
\* message arrives, and a message arrives while no operation is in progress
UiOpen == scenario = "faults" \/ budget.events = 0

workerVars == << wpc, wdev, wev, wk, poll_result >>
eventVars == << fired, debounced, keys, clock >>
threadVars == << thread_running, midi_thread, threads >>

FirstFree == IF ~InList("A") THEN "A" ELSE "B"

Remove(list, t) == SelectSeq(list, LAMBDA x : x # t)

Spend(what) == budget' = [ budget EXCEPT ![what] = @ + 1 ]

\* stack_launchpad_trigger_create; the body runs with list_mutex held
Create ==
    /\ crashed = "no" /\ upc = "idle" /\ list_mutex = "free" /\ UiOpen
    /\ Len(trigger_list) < Cardinality(TIDs)
    /\ LET t == FirstFree
       IN  /\ trig' = [ trig EXCEPT ![t] = NewTrigger ]
           /\ trigger_list' = Append(trigger_list, t)
    /\ IF MustStartThread
       THEN /\ midi_thread = "joinable" => JoinCompletes
            /\ thread_running' = TRUE
            /\ midi_thread' = "joinable"
            /\ threads' = threads + 1
            /\ wpc' = "L539"
            /\ wdev' = FALSE
       ELSE UNCHANGED << threadVars, wpc, wdev >>
    /\ lastMsg' = NoMsg /\ oob' = FALSE /\ uac' = FALSE
    /\ UNCHANGED << buttons, crashed, dev, global_buttons, list_mutex, wev, wk,
                    poll_result, upc, uop, eventVars, budget, scenario, pf >>

\* stack_launchpad_trigger_from_json: the fields are read from the document,
\* then device = stack_launchpad_trigger_get_device(true), which takes list_mutex
FromJson ==
    /\ crashed = "no" /\ upc = "idle" /\ list_mutex = "free" /\ UiOpen
    /\ budget.claims < MaxClaims
    /\ \E t \in TIDs, arg \in JsonInputs, a \in DeviceAnswers(TRUE) :
          /\ InList(t)
          /\ LET res == get_device([ Mem EXCEPT !.trig[t] = arg ], dev, trigger_list,
                                   global_buttons, TRUE, a[1], a[2])
             IN  dev' = res.dev /\ Commit(res.G)
          /\ uop' = [ op |-> "from_json", t |-> t, arg |-> arg ]
    /\ upc' = "json_add"
    /\ Spend("claims")
    /\ UNCHANGED << trigger_list, global_buttons, threadVars, list_mutex, workerVars,
                    eventVars, scenario, pf >>

\* ... stack_launchpad_trigger_add_button(device, column, row, r, g, b),
\* without list_mutex
FromJsonAddButton ==
    /\ crashed = "no" /\ upc = "json_add"
    /\ LET t == trig[uop.t]
       IN  Commit(add_button(Mem, dev, trigger_list, t.column, t.row, t.r, t.g, t.b))
    /\ upc' = "idle"
    /\ uop' = NoOp
    /\ UNCHANGED << trigger_list, dev, global_buttons, threadVars, list_mutex,
                    workerVars, eventVars, budget, scenario, pf >>

\* stack_launchpad_trigger_show_config_ui answered with OK and a valid column
\* and row: device = stack_launchpad_trigger_get_device(true)
ShowConfigUi ==
    /\ crashed = "no" /\ upc = "idle" /\ list_mutex = "free" /\ UiOpen
    /\ budget.claims < MaxClaims
    /\ \E t \in TIDs, arg \in ConfigInputs, a \in DeviceAnswers(TRUE) :
          /\ InList(t)
          /\ LET res == get_device(Mem, dev, trigger_list, global_buttons, TRUE,
                                   a[1], a[2])
             IN  dev' = res.dev /\ Commit(res.G)
          /\ uop' = [ op |-> "config", t |-> t, arg |-> arg ]
    /\ upc' = "cfg_apply"
    /\ Spend("claims")
    /\ UNCHANGED << trigger_list, global_buttons, threadVars, list_mutex, workerVars,
                    eventVars, scenario, pf >>

\* the OK branch without the remove_button call for the old position
config_apply_noremove(G, d, list, gb, t, arg) ==
    LET old == G.trig[t]
        G2  == [ G EXCEPT !.trig[t] = arg ]
        G3  == add_button(G2, d, list, arg.column, arg.row, arg.r, arg.g, arg.b)
    IN  IF old.use_for_cue_list # arg.use_for_cue_list
        THEN update_buttons(G3, d, list, gb)
        ELSE G3

\* the rest of the OK branch: remove_button for the old position, the new
\* fields, add_button, and update_buttons when the cue list flag changed
config_apply(G, d, list, gb, t, arg) ==
    LET old == G.trig[t]
        G1  == remove_button(G, d, old.column, old.row)
        G2  == [ G1 EXCEPT !.trig[t] = arg ]
        G3  == add_button(G2, d, list, arg.column, arg.row, arg.r, arg.g, arg.b)
    IN  IF old.use_for_cue_list # arg.use_for_cue_list
        THEN update_buttons(G3, d, list, gb)
        ELSE G3

\* ... without list_mutex
ShowConfigUiApply ==
    /\ crashed = "no" /\ upc = "cfg_apply"
    /\ Commit(config_apply(Mem, dev, trigger_list, global_buttons, uop.t, uop.arg))
    /\ upc' = "idle"
    /\ uop' = NoOp
    /\ UNCHANGED << trigger_list, dev, global_buttons, threadVars, list_mutex,
                    workerVars, eventVars, budget, scenario, pf >>

\* stack_launchpad_trigger_global_settings_clicked answered with OK: the six
\* entries are read into a copy; if all are accepted, the memcpy into
\* global_buttons, then stack_launchpad_trigger_get_device(true).  The handler is connected only
\* to the config dialog of a trigger (show_config_ui), so a trigger is
\* registered whenever it runs.
GlobalSettings ==
    /\ crashed = "no" /\ upc = "idle" /\ list_mutex = "free" /\ UiOpen
    /\ trigger_list # << >>
    /\ budget.settings < MaxSettings
    /\ \E sub \in DialogAnswers :
          LET rd == global_settings_read(global_buttons, sub)
          IN  /\ global_buttons' = rd.gb
              /\ IF rd.ok
                 THEN /\ \E a \in DeviceAnswers(TRUE) :
                            LET res == get_device(Mem, dev, trigger_list, rd.gb,
                                                  TRUE, a[1], a[2])
                            IN  dev' = res.dev /\ Commit(res.G)
                      /\ upc' = "set_update"
                      /\ uop' = [ op |-> "settings", t |-> "A", arg |-> NewTrigger ]
                 ELSE \* loop = true: the dialog runs again
                      /\ NoCall
                      /\ UNCHANGED << dev, upc, uop >>
    /\ Spend("settings")
    /\ UNCHANGED << trigger_list, threadVars, list_mutex, workerVars, eventVars,
                    scenario, pf >>

\* ... stack_launchpad_trigger_update_buttons(device), without list_mutex
GlobalSettingsUpdate ==
    /\ crashed = "no" /\ upc = "set_update"
    /\ Commit(update_buttons(Mem, dev, trigger_list, global_buttons))
    /\ upc' = "idle"
    /\ uop' = NoOp
    /\ UNCHANGED << trigger_list, dev, global_buttons, threadVars, list_mutex,
                    workerVars, eventVars, budget, scenario, pf >>

\* stack_launchpad_trigger_destroy up to the test of trigger_list.size():
\* get_device(false), then under list_mutex the removal and remove_button
destroy_remove(G, d, t) ==
    LET tr == G.trig[t]
    IN  IF tr.column > 0 /\ tr.row > 0
        THEN remove_button(G, d, tr.column, tr.row)
        ELSE G

Destroy ==
    /\ crashed = "no" /\ upc = "idle" /\ list_mutex = "free" /\ UiOpen
    /\ \E t \in TIDs :
          /\ InList(t)
          /\ trigger_list' = Remove(trigger_list, t)
          /\ Commit([ destroy_remove(Mem, dev, t) EXCEPT !.trig[t] = NewTrigger ])
          /\ IF trigger_list' = << >>
             THEN /\ upc' = "destroy_close"
                  /\ uop' = [ op |-> "destroy", t |-> t, arg |-> trig[t] ]
             ELSE /\ upc' = "idle"
                  /\ uop' = NoOp
    /\ UNCHANGED << dev, global_buttons, threadVars, list_mutex, workerVars, eventVars,
                    budget, scenario, pf >>

\* ... stack_launchpad_trigger_close_device(device), after list_mutex.unlock()
DestroyClose ==
    /\ crashed = "no" /\ upc = "destroy_close"
    /\ LET res == close_device(Mem, dev)
       IN  dev' = res.dev /\ Commit(res.G)
    /\ upc' = "destroy_join"
    /\ UNCHANGED << trigger_list, global_buttons, threadVars, list_mutex, workerVars,
                    uop, eventVars, budget, scenario, pf >>

\* ... midi_thread.join(); join on a thread that is not joinable throws
DestroyJoin ==
    /\ crashed = "no" /\ upc = "destroy_join"
    /\ IF midi_thread = "joinable"
       THEN /\ JoinCompletes
            /\ midi_thread' = "none"
            /\ upc' = "idle"
            /\ uop' = NoOp
            /\ UNCHANGED crashed
       ELSE /\ crashed' = "join"
            /\ UNCHANGED << midi_thread, upc, uop >>
    /\ lastMsg' = NoMsg /\ oob' = FALSE /\ uac' = FALSE
    /\ UNCHANGED << trigger_list, trig, buttons, dev, global_buttons, thread_running,
                    threads, list_mutex, workerVars, eventVars, budget, scenario, pf >>

---------------------------------------------------------------------------
(* The worker thread: stack_launchpad_trigger_thread *)

\* what the device can send: the address bytes of pads (1,1) and (3,4)
\* 110 is the one address in 0..127 that address_to_col_row maps to (0,0)
EventAddresses == IF scenario = "unset" THEN { 63, 110 } ELSE { 91, 63 }
Pressures == { 0, 127 }

ShortDelay == 500
LongDelay == 2000

\* time that passes before a message is read, and between two triggers of the
\* dispatch loop
ReadDelays(pressure) == IF pressure > 0 THEN { ShortDelay, LongDelay } ELSE { ShortDelay }

LoopDelays(k) == IF k > 1 THEN { 0, LongDelay } ELSE { 0 }

SetMax(S) == CHOOSE x \in S : \A y \in S : y <= x

\* the scan of global_buttons in the dispatch loop: the last match stays
GlobalMatches(gb, column, row) ==
    { i \in DOMAIN gb : gb[i].row = row /\ gb[i].column = column }

\* button->last_press_time, read through the pointer p (not NULL)
LastPress(G, p) ==
    IF p.idx \in ButtonIdx THEN G.buttons[p.idx].last_press_time ELSE 0

SetLastPress(G, idx, now) ==
    IF idx \in ButtonIdx
    THEN [ G EXCEPT !.buttons[idx].last_press_time = now ]
    ELSE [ G EXCEPT !.oob = TRUE ]

\* the index written after a press on a global button
GlobalPressIndex(column, row) == row * Rows + column

\* `now - button->last_press_time > 1e3`
Honored(now, last) == now - last > DebounceInterval

\* the state of the dispatch of one event: the memory, what ran, and whether
\* the loop over trigger_list was left with break
\* S = [ G, fired, debounced, keys, brk ]

\* the use_for_cue_list branch for trigger t
dispatch_cue(S, d, gb, t, ev, now) ==
    LET tr == S.G.trig[t]
        M  == GlobalMatches(gb, ev.column, ev.row)
        p  == get_button(ev.column, ev.row)
    IN  IF ~tr.use_for_cue_list \/ M = { } THEN S
        ELSE IF ev.pressure > 0
        THEN IF p.null THEN [ S EXCEPT !.G.segv = TRUE ]
             ELSE LET hon == Honored(now, LastPress(S.G, p))
                      G0  == [ S.G EXCEPT !.oob = @ \/ p.idx \notin ButtonIdx ]
                      G1  == IF hon
                             THEN midi_set_color(SetLastPress(G0, p.idx, now), d,
                                                 ev.column, ev.row, 0, 0, 0)
                             ELSE G0
                      G2  == SetLastPress(G1, GlobalPressIndex(ev.column, ev.row), now)
                  IN  [ S EXCEPT !.G = G2,
                                 !.keys = IF hon THEN @ + 1 ELSE @,
                                 !.brk = TRUE ]
        ELSE LET b == gb[SetMax(M)]
             IN  [ S EXCEPT !.G = midi_set_color(S.G, d, ev.column, ev.row, b.r, b.g, b.b) ]

\* the branch for the trigger's own button with nothing done on a release
dispatch_own_norestore(S, d, t, ev, now) ==
    LET tr == S.G.trig[t]
        p  == get_button(ev.column, ev.row)
    IN  IF S.brk \/ S.G.segv \/ ~(tr.row = ev.row /\ tr.column = ev.column) THEN S
        ELSE IF ev.pressure > 0
        THEN IF p.null THEN [ S EXCEPT !.G.segv = TRUE ]
             ELSE LET hon == Honored(now, LastPress(S.G, p))
                      G0  == [ S.G EXCEPT !.oob = @ \/ p.idx \notin ButtonIdx ]
                  IN  IF hon
                      THEN [ S EXCEPT
                               !.G = midi_set_color(SetLastPress(G0, p.idx, now), d,
                                                    ev.column, ev.row, 0, 0, 0),
                               !.fired = IF tr.on_pressed THEN @ \cup { t } ELSE @ ]
                      ELSE [ S EXCEPT !.G = G0, !.debounced = @ \cup { t } ]
        ELSE [ S EXCEPT !.fired = IF ~tr.on_pressed THEN @ \cup { t } ELSE @ ]

\* the branch for the trigger's own button
dispatch_own(S, d, t, ev, now) ==
    LET tr == S.G.trig[t]
        p  == get_button(ev.column, ev.row)
    IN  IF S.brk \/ S.G.segv \/ ~(tr.row = ev.row /\ tr.column = ev.column) THEN S
        ELSE IF ev.pressure > 0
        THEN IF p.null THEN [ S EXCEPT !.G.segv = TRUE ]
             ELSE LET hon == Honored(now, LastPress(S.G, p))
                      G0  == [ S.G EXCEPT !.oob = @ \/ p.idx \notin ButtonIdx ]
                  IN  IF hon
                      THEN [ S EXCEPT
                               !.G = midi_set_color(SetLastPress(G0, p.idx, now), d,
                                                    ev.column, ev.row, 0, 0, 0),
                               !.fired = IF tr.on_pressed THEN @ \cup { t } ELSE @ ]
                      ELSE [ S EXCEPT !.G = G0, !.debounced = @ \cup { t } ]
        ELSE LET G1 == midi_set_color(S.G, d, ev.column, ev.row, tr.r, tr.g, tr.b)
             IN  [ S EXCEPT !.G = G1,
                            !.fired = IF ~tr.on_pressed /\ ~G1.segv THEN @ \cup { t } ELSE @ ]

\* one pass of the loop body for trigger t
dispatch_trigger(S, d, gb, t, ev, now) ==
    dispatch_own(dispatch_cue(S, d, gb, t, ev, now), d, t, ev, now)

\* the head of the loop, lines 539-567, all of it without list_mutex:
\*   while (trigger_list.size() > 0)
\*     while (trigger_list.size() > 0 && (device == NULL || !device->ready)) ...
\*     poll(&device->poll_fds, 1, 100): a timeout (0), an error (< 0, only where
\*     the environment lets the device fail), or something to read (> 0)
\*     if (!device->ready) continue
WOuter ==
    /\ crashed = "no" /\ wpc = "L539"
    /\ IF Len(trigger_list) = 0
       THEN /\ wpc' = (IF wdev THEN "xclose" ELSE "L690")
            /\ poll_result' = 0 /\ UNCHANGED budget
       ELSE IF ~wdev \/ ~dev.ready
       THEN wpc' = "L543" /\ poll_result' = 0 /\ UNCHANGED budget
       ELSE \/ wpc' = "L539" /\ poll_result' = 0 /\ UNCHANGED budget
            \/ /\ scenario = "faults"
               /\ wpc' = "L539" /\ poll_result' = -1 /\ UNCHANGED budget
            \/ /\ scenario # "faults" => upc = "idle" /\ budget.events < EventLimit
               /\ wpc' = "L570" /\ poll_result' = 1
               /\ IF scenario # "faults" THEN Spend("events") ELSE UNCHANGED budget
    /\ wev' = NoEvent /\ fired' = { } /\ debounced' = { } /\ keys' = 0
    /\ NoCall
    /\ UNCHANGED << trigger_list, dev, global_buttons, threadVars, list_mutex,
                    wdev, wk, upc, uop, clock, scenario, pf >>

\* device = stack_launchpad_trigger_get_device(true), and the sleep
WGetDevice ==
    /\ crashed = "no" /\ wpc = "L543" /\ list_mutex = "free"
    /\ \E a \in DeviceAnswers(TRUE) :
          LET res == get_device(Mem, dev, trigger_list, global_buttons, TRUE, a[1], a[2])
          IN  dev' = res.dev /\ Commit(res.G)
    /\ wdev' = TRUE
    /\ wpc' = "L539"
    /\ UNCHANGED << trigger_list, global_buttons, threadVars, list_mutex, wev, wk,
                    poll_result, upc, uop, eventVars, budget, scenario, pf >>

\* snd_rawmidi_read(device->handle_in, buf, sizeof(buf)): an error, or one
\* note-on / control-change message
WRead ==
    /\ crashed = "no" /\ wpc = "L570"
    /\ IF dev.handle_in # "open" \/ scenario = "faults"
       THEN /\ wpc' = "rclose"
            /\ uac' = (dev.handle_in # "open")
            /\ UNCHANGED << wev, eventVars >>
       ELSE /\ \E a \in EventAddresses, pr \in Pressures :
                 \E dt \in ReadDelays(pr) :
                    /\ wev' = address_to_col_row(a) @@ [ pressure |-> pr ]
                    /\ clock' = clock + dt
            /\ fired' = { } /\ debounced' = { } /\ keys' = 0
            /\ wpc' = "L604"
            /\ uac' = FALSE
    /\ poll_result' = 0
    /\ lastMsg' = NoMsg /\ oob' = FALSE
    /\ UNCHANGED << trigger_list, trig, buttons, crashed, dev, global_buttons,
                    threadVars, list_mutex, wdev, wk, upc, uop, budget, scenario, pf >>

\* list_mutex.lock() before the loop over trigger_list
WLock ==
    /\ crashed = "no" /\ wpc = "L604" /\ list_mutex = "free"
    /\ IF Len(trigger_list) = 0
       THEN wpc' = "L539" /\ wk' = 0 /\ UNCHANGED list_mutex
       ELSE wpc' = "L605" /\ wk' = 1 /\ list_mutex' = "worker"
    /\ NoCall
    /\ UNCHANGED << trigger_list, dev, global_buttons, threadVars,
                    wdev, wev, poll_result, upc, uop, eventVars, budget, scenario, pf >>

\* one trigger of the loop; list_mutex.unlock() after the last one or a break
WDispatch ==
    /\ crashed = "no" /\ wpc = "L605" /\ list_mutex = "worker"
    /\ \E dt \in LoopDelays(wk) :
          LET S0 == [ G |-> Mem, fired |-> fired, debounced |-> debounced,
                      keys |-> keys, brk |-> FALSE ]
              S1 == dispatch_trigger(S0, dev, global_buttons, trigger_list[wk], wev,
                                     clock + dt)
          IN  /\ Commit(S1.G)
              /\ fired' = S1.fired
              /\ debounced' = S1.debounced
              /\ keys' = S1.keys
              /\ clock' = clock + dt
              /\ IF S1.brk \/ wk >= Len(trigger_list)
                 THEN wpc' = "L539" /\ wk' = 0 /\ list_mutex' = "free"
                 ELSE wpc' = "L605" /\ wk' = wk + 1 /\ list_mutex' = "worker"
    /\ UNCHANGED << trigger_list, dev, global_buttons, threadVars, wdev, wev,
                    poll_result, upc, uop, budget, scenario, pf >>

\* stack_launchpad_trigger_close_device(device) after a failed read (rclose)
\* and after the loop (xclose)
WClose ==
    /\ crashed = "no" /\ wpc \in { "rclose", "xclose" }
    /\ LET res == close_device(Mem, dev)
       IN  dev' = res.dev /\ Commit(res.G)
    /\ wpc' = IF wpc = "rclose" THEN "L539" ELSE "L690"
    /\ UNCHANGED << trigger_list, global_buttons, threadVars, list_mutex, wdev, wev, wk,
                    poll_result, upc, uop, eventVars, budget, scenario, pf >>

\* thread_running = false
WExit ==
    /\ crashed = "no" /\ wpc = "L690"
    /\ thread_running' = FALSE
    /\ wpc' = "return"
    /\ NoCall
    /\ UNCHANGED << trigger_list, dev, global_buttons, midi_thread, threads,
                    list_mutex, wdev, wev, wk, poll_result, upc, uop, eventVars, budget,
                    scenario, pf >>

\* the thread function returns
WReturn ==
    /\ crashed = "no" /\ wpc = "return"
    /\ threads' = threads - 1
    /\ wpc' = "none"
    /\ wdev' = FALSE
    /\ NoCall
    /\ UNCHANGED << trigger_list, dev, global_buttons, thread_running,
                    midi_thread, list_mutex, wev, wk, poll_result, upc, uop, eventVars,
                    budget, scenario, pf >>

\* an access outside the button array or a use of a handle that is not open
\* can kill the process; nothing of its state is left
Abort ==
    /\ crashed = "no" /\ (oob \/ uac)
    /\ crashed' = IF oob THEN "oob" ELSE "uac"
    /\ trigger_list' = << >>
    /\ trig' = [ t \in TIDs |-> NewTrigger ]
    /\ buttons' = [ i \in ButtonIdx |-> ZeroButton ]
    /\ dev' = ClosedDevice
    /\ global_buttons' = DefaultGlobalButtons
    /\ thread_running' = FALSE /\ midi_thread' = "none" /\ threads' = 0
    /\ list_mutex' = "free"
    /\ wpc' = "dead" /\ wdev' = FALSE /\ wev' = NoEvent /\ wk' = 0 /\ poll_result' = 0
    /\ upc' = "dead" /\ uop' = NoOp
    /\ clock' = StartTime
    /\ lastMsg' = NoMsg /\ fired' = { } /\ debounced' = { } /\ keys' = 0
    /\ oob' = FALSE /\ uac' = FALSE
    /\ budget' = NoBudget
    /\ UNCHANGED << scenario, pf >>

Next ==
    \/ Create
    \/ FromJson
    \/ FromJsonAddButton
    \/ ShowConfigUi
    \/ ShowConfigUiApply
    \/ GlobalSettings
    \/ GlobalSettingsUpdate
    \/ Destroy
    \/ DestroyClose
    \/ DestroyJoin
    \/ WOuter
    \/ WGetDevice
    \/ WRead
    \/ WLock
    \/ WDispatch
    \/ WClose
    \/ WExit
    \/ WReturn
    \/ Abort

Spec == Init /\ [][Next]_vars

---------------------------------------------------------------------------
(* The program with a device that fails, and a worker thread that keeps     *)
(* running.  Every read fails, so the dispatch loop is never entered, and    *)
(* the host loads or configures one trigger and leaves the global settings   *)
(* alone.  The worker is a thread of its own and its next step is eventually *)
(* taken; a Launchpad that is plugged in is found and opened by one of the   *)
(* get_device calls the worker repeats every second.                         *)

\* all but one of the loads and dialogs, and the settings dialog, are used up
OneClaimLeft ==
    [ claims |-> MaxClaims - 1, settings |-> MaxSettings, events |-> 0 ]

InitFaults ==
    /\ InitProgram
    /\ budget = OneClaimLeft
    /\ dev = ClosedDevice
    /\ scenario = "faults"
    /\ pf = NoHarness

NextFaults ==
    \/ Create
    \/ FromJson
    \/ FromJsonAddButton
    \/ ShowConfigUi
    \/ ShowConfigUiApply
    \/ Destroy
    \/ DestroyClose
    \/ DestroyJoin
    \/ WOuter
    \/ WGetDevice
    \/ WRead
    \/ WClose
    \/ WExit
    \/ WReturn
    \/ Abort

\* the statement the worker is at can be executed and takes it elsewhere:
\* closing, reading, leaving, get_device once list_mutex is free, and the
\* loop head when there is no trigger or no ready device
WorkerCanMove ==
    /\ crashed = "no"
    /\ \/ wpc \in { "L570", "rclose", "xclose", "L690", "return" }
       \/ wpc = "L543" /\ list_mutex = "free"
       \/ wpc = "L539" /\ (trigger_list = << >> \/ ~wdev \/ ~dev.ready)

WorkerPcs == { "none", "L539", "L543", "L570", "rclose", "xclose", "L690", "return" }

\* the scheduler runs the worker thread
WorkerRuns == WF_wpc(WorkerCanMove /\ wpc' \in WorkerPcs)

\* the device can be discovered and opened again: of the calls of get_device
\* that find it closed, one finds the hardware and opens it
DeviceComesBack ==
    SF_wpc( /\ crashed = "no" /\ wpc = "L543" /\ list_mutex = "free" /\ ~dev.ready
            /\ wpc' = "L539" /\ dev' = ReadyDevice)

SpecFaults == InitFaults /\ [][NextFaults]_vars /\ WorkerRuns /\ DeviceComesBack

\* the buttons are what update_buttons makes of the registered triggers
Rebuilt ==
    buttons = update_buttons(Mem, dev, trigger_list, global_buttons).buttons

---------------------------------------------------------------------------
(* The program with a working device that sends up to MaxPresses button      *)
(* events, enough for a press, a second press inside the debounce interval   *)
(* and a release.  The host loads or configures one trigger and may apply    *)
(* the global settings once.                                                 *)

OneClaimOneDialog ==
    [ claims |-> MaxClaims - 1, settings |-> 0, events |-> 0 ]

InitPresses ==
    /\ InitProgram
    /\ budget = OneClaimOneDialog
    /\ dev = ClosedDevice
    /\ scenario = "presses"
    /\ pf = NoHarness

SpecPresses == InitPresses /\ [][Next]_vars

\* the same program with a device that also sends address 110
InitUnset ==
    /\ InitProgram
    /\ budget = OneClaimOneDialog
    /\ dev = ClosedDevice
    /\ scenario = "unset"
    /\ pf = NoHarness

SpecUnset == InitUnset /\ [][Next]_vars

---------------------------------------------------------------------------
(* Harness for add_button / remove_button on one pad *)

\* pf.ordered: no add_button call has followed a remove_button call
InitGrid ==
    /\ InitSystem
    /\ dev \in { ClosedDevice, ReadyDevice }
    /\ scenario = "events"
    /\ pf \in { [ kind |-> "grid", column |-> c, row |-> r, claims |-> 0,
                  releases |-> 0, ordered |-> TRUE ] :
                c \in 1 .. Columns, r \in 1 .. Rows }

harnessFrame == << trigger_list, dev, global_buttons, threadVars, list_mutex,
                   workerVars, upc, uop, eventVars, budget, scenario >>

GridClaim ==
    /\ pf.kind = "grid" /\ pf.claims + pf.releases < MaxCalls
    /\ \E color \in { Green, Orange } :
          Commit(add_button(Mem, dev, trigger_list, pf.column, pf.row,
                            color[1], color[2], color[3]))
    /\ pf' = [ pf EXCEPT !.claims = @ + 1, !.ordered = @ /\ pf.releases = 0 ]
    /\ UNCHANGED harnessFrame

GridRelease ==
    /\ pf.kind = "grid" /\ pf.claims + pf.releases < MaxCalls
    /\ Commit(remove_button(Mem, dev, pf.column, pf.row))
    /\ pf' = [ pf EXCEPT !.releases = @ + 1 ]
    /\ UNCHANGED harnessFrame

NextGrid == GridClaim \/ GridRelease

SpecGrid == InitGrid /\ [][NextGrid]_vars

---------------------------------------------------------------------------
(* Harness for the address mapping *)

InitAddr ==
    /\ InitSystem
    /\ dev = ClosedDevice
    /\ scenario = "events"
    /\ pf \in { [ kind |-> "addr", stage |-> "input", column |-> c, row |-> r,
                  address |-> 0, back |-> [ column |-> 0, row |-> 0 ] ] :
                c \in 0 .. MaxCoord, r \in 0 .. MaxCoord }

ToAddress ==
    /\ pf.kind = "addr" /\ pf.stage = "input"
    /\ pf' = [ pf EXCEPT !.stage = "address",
                         !.address = col_row_to_address(pf.column, pf.row) ]
    /\ UNCHANGED << harnessFrame, buttons, trig, lastMsg, oob, uac, crashed >>

FromAddress ==
    /\ pf.kind = "addr" /\ pf.stage = "address"
    /\ pf' = [ pf EXCEPT !.stage = "output", !.back = address_to_col_row(pf.address) ]
    /\ UNCHANGED << harnessFrame, buttons, trig, lastMsg, oob, uac, crashed >>

NextAddr == ToAddress \/ FromAddress

SpecAddr == InitAddr /\ [][NextAddr]_vars

---------------------------------------------------------------------------
(* Harness for the two messages: midi_set_color on one pad of a ready device, *)
(* then midi_refresh_colors on the resulting button array                     *)

\* values of a color component: both ends, an odd value, and the first value
\* that is negative as an int8_t
ColorValues == { 0, 1, 128, 255 }

InitWire ==
    /\ InitSystem
    /\ dev = ReadyDevice
    /\ scenario = "events"
    /\ pf \in { [ kind |-> "wire", stage |-> "input", column |-> c, row |-> r,
                  r |-> cr, g |-> cg, b |-> cb ] :
                c \in 1 .. Columns, r \in 1 .. Rows,
                cr \in ColorValues, cg \in ColorValues, cb \in ColorValues }

WireSetColor ==
    /\ pf.kind = "wire" /\ pf.stage = "input"
    /\ Commit(midi_set_color(Mem, dev, pf.column, pf.row, pf.r, pf.g, pf.b))
    /\ pf' = [ pf EXCEPT !.stage = "set" ]
    /\ UNCHANGED harnessFrame

WireRefresh ==
    /\ pf.kind = "wire" /\ pf.stage = "set"
    /\ Commit(midi_refresh_colors(Mem, dev))
    /\ pf' = [ pf EXCEPT !.stage = "refreshed" ]
    /\ UNCHANGED harnessFrame

NextWire == WireSetColor \/ WireRefresh

SpecWire == InitWire /\ [][NextWire]_vars

\* position (1-based) of the record of pad (column, row) in the refresh message
RecordAt(column, row) == 7 + 5 * ((row - 1) * Columns + (column - 1))

---------------------------------------------------------------------------
(* Harness for the decoding of one chunk: snd_rawmidi_read has put n bytes   *)
(* into buf, and the for loop of the worker visits the positions 0 .. n-1.   *)
(* What buf holds from position n on, and what lies behind buf, was not       *)
(* written by the read: any value.                                            *)

Statuses == { MIDI_NOTE_ON, MIDI_CONTROL_CHANGE }

\* m complete note-on messages for pad (3,4)
RECURSIVE Messages(_)
Messages(m) ==
    IF m = 0 THEN << >> ELSE << MIDI_NOTE_ON, 63, 127 >> \o Messages(m - 1)

\* how a chunk ends: with a complete message, a status byte alone, or a
\* status byte and an address
ChunkTails ==
    { << >> } \cup { << st >> : st \in Statuses } \cup { << st, 63 >> : st \in Statuses }

\* how a chunk begins: with a status byte, or with a stray data byte
ChunkLeads == { << >>, << 5 >> }

Chunks ==
    { c \in { lead \o Messages(m) \o tail :
                lead \in ChunkLeads, m \in 0 .. MaxMessages, tail \in ChunkTails } :
        Len(c) \in 1 .. BufSize }

\* values of a byte the read has not written
StaleBytes == { 0, 91, 127 }

\* buf[j] after a read of the chunk c; s stands for memory not written
ByteAt(c, j, s) == IF j < Len(c) THEN c[j + 1] ELSE s

\* one pass of `for (size_t i = 0; i < result; i++)` up to the dispatch:
\* event, address and pressure are read first; `event & 0x80 != 0` is
\* event & (0x80 != 0), the lowest bit of event
DecodeAt(c, i, s1, s2) ==
    LET event    == c[i + 1]
        address  == ByteAt(c, i + 1, s1)
        pressure == ByteAt(c, i + 2, s2)
    IN  [ skip     |-> event % 2 # 0 \/ event \notin Statuses,
          address  |-> address,
          pressure |-> pressure ]

NoneDecoded == [ at |-> -1, address |-> 0, pressure |-> 0 ]

InitChunk ==
    /\ InitSystem
    /\ dev = ReadyDevice
    /\ scenario = "events"
    /\ pf \in { [ kind |-> "chunk", stage |-> "read", buf |-> c, i |-> 0,
                  dispatched |-> 0, last |-> NoneDecoded ] : c \in Chunks }

\* the pass for position pf.i
DecodeByte ==
    /\ pf.kind = "chunk" /\ pf.stage = "read"
    /\ \E s1 \in StaleBytes, s2 \in StaleBytes :
          LET d == DecodeAt(pf.buf, pf.i, s1, s2)
          IN  pf' = [ pf EXCEPT
                        !.i = @ + 1,
                        !.stage = IF pf.i + 1 < Len(pf.buf) THEN "read" ELSE "done",
                        !.dispatched = IF d.skip THEN @ ELSE @ + 1,
                        !.last = IF d.skip THEN @
                                 ELSE [ at |-> pf.i, address |-> d.address,
                                        pressure |-> d.pressure ] ]
    /\ UNCHANGED << harnessFrame, buttons, trig, lastMsg, oob, uac, crashed >>

NextChunk == DecodeByte

SpecChunk == InitChunk /\ [][NextChunk]_vars

---------------------------------------------------------------------------
(* Device discovery: stack_launchpad_trigger_get_device_address over the     *)
(* sound cards ALSA enumerates.  A card is [ ctl_ok, devs ]: whether          *)
(* snd_ctl_open succeeds, and its rawmidi devices 0, 1, ... in order.  A      *)
(* device is [ info, launchpad, subs ]:                                       *)
(*   info      : "ok", or how it fails: "nexterr" (snd_ctl_rawmidi_next_device *)
(*               fails when it comes to this device), "enoent" and "err"      *)
(*               (snd_ctl_rawmidi_info returns -ENOENT / another error)       *)
(*   launchpad : the device name contains "Launchpad"                         *)
(*   subs      : per subdevice "midi" (name contains "Launchpad" and          *)
(*               " MIDI "), "daw" (it does not), "err" (its info call fails)  *)

BusDevice(info, launchpad, subs) ==
    [ info |-> info, launchpad |-> launchpad, subs |-> subs ]

BusDevices ==
    { BusDevice("ok", FALSE, << "daw" >>),
      BusDevice("ok", TRUE, << "daw", "midi" >>),
      BusDevice("ok", TRUE, << "daw" >>),
      BusDevice("ok", TRUE, << "err", "midi" >>),
      BusDevice("enoent", FALSE, << >>),
      BusDevice("err", FALSE, << >>),
      BusDevice("nexterr", FALSE, << >>) }

MaxDevices == 2     \* rawmidi devices per sound card
MaxCards == 2       \* sound cards

DeviceLists ==
    UNION { [ 1 .. n -> BusDevices ] : n \in 0 .. MaxDevices }

BusCards ==
    { [ ctl_ok |-> TRUE, devs |-> ds ] : ds \in DeviceLists }
        \cup { [ ctl_ok |-> FALSE, devs |-> << >> ] }

\* the subdevice loop: the number of the first "midi" subdevice, -1 when the
\* loop ends or breaks on an error before one is met
RECURSIVE FirstMidi(_, _)
FirstMidi(subs, k) ==
    IF k > Len(subs) \/ subs[k] = "err" THEN -1
    ELSE IF subs[k] = "midi" THEN k - 1
    ELSE FirstMidi(subs, k + 1)

\* snd_ctl_rawmidi_next_device: the device after *device, -1 after the last
NextDevice(devs, cur) ==
    LET nxt == IF cur < 0 THEN 0 ELSE cur + 1
    IN  IF nxt >= Len(devs) THEN -1 ELSE nxt

\* the `while (!found)` loop over the devices of one card; cur is what the
\* variable `dev` holds when snd_ctl_rawmidi_next_device reads it
RECURSIVE ScanDevices(_, _)
ScanDevices(devs, cur) ==
    LET nxt == NextDevice(devs, cur)
    IN  IF nxt < 0 THEN [ found |-> FALSE, dev |-> -1, sub |-> -1 ]
        ELSE LET d == devs[nxt + 1]
             IN  IF d.info = "nexterr" THEN [ found |-> FALSE, dev |-> cur, sub |-> -1 ]
                 ELSE IF d.info = "err" THEN [ found |-> FALSE, dev |-> nxt, sub |-> -1 ]
                 ELSE IF d.info = "ok" /\ d.launchpad /\ FirstMidi(d.subs, 1) >= 0
                 THEN [ found |-> TRUE, dev |-> nxt, sub |-> FirstMidi(d.subs, 1) ]
                 ELSE ScanDevices(devs, nxt)

NotFound == [ found |-> FALSE, address |-> << >> ]

\* the loop over the cards, from card c on (hw:c-1); a failed snd_ctl_open
\* leaves the loop with break.  `int dev;` is declared without a value in the
\* body of the inner loop and keeps its stack slot, so each scan starts from
\* what the slot held last.
RECURSIVE ScanCards(_, _, _)
ScanCards(cards, c, cur) ==
    IF c > Len(cards) \/ ~cards[c].ctl_ok THEN NotFound
    ELSE LET r == ScanDevices(cards[c].devs, cur)
         IN  IF r.found
             THEN [ found |-> TRUE, address |-> << c - 1, r.dev, r.sub >> ]
             ELSE ScanCards(cards, c + 1, r.dev)

\* junk: the value `dev` holds at its first read, never assigned by the code
get_device_address(cards, junk) == ScanCards(cards, 1, junk)

\* values the uninitialised `dev` can hold: before every device, or some
\* device number
JunkValues == -1 .. (MaxDevices - 1)

InitBus ==
    /\ InitSystem
    /\ dev = ClosedDevice
    /\ scenario = "faults"
    /\ pf \in { [ kind |-> "bus", stage |-> "input", cards |-> cs, junk |-> -1,
                  result |-> NotFound ] :
                cs \in [ 1 .. MaxCards -> BusCards ] }

Discover ==
    /\ pf.kind = "bus" /\ pf.stage = "input"
    /\ \E junk \in JunkValues :
          pf' = [ pf EXCEPT !.stage = "done", !.junk = junk,
                            !.result = get_device_address(pf.cards, junk) ]
    /\ UNCHANGED << harnessFrame, buttons, trig, lastMsg, oob, uac, crashed >>

NextBus == Discover

SpecBus == InitBus /\ [][NextBus]_vars

\* the subdevices discovery is to consider: "midi" subdevices of Launchpad
\* devices whose info calls succeed, on cards that open and whose enumeration
\* has not failed before that device
Qualifying(cards) ==
    { a \in (0 .. (MaxCards - 1)) \X (0 .. (MaxDevices - 1)) \X (0 .. 1) :
        /\ a[1] + 1 <= Len(cards) /\ cards[a[1] + 1].ctl_ok
        /\ a[2] + 1 <= Len(cards[a[1] + 1].devs)
        /\ LET devs == cards[a[1] + 1].devs
               d    == devs[a[2] + 1]
           IN  /\ \A k \in 1 .. a[2] : devs[k].info \notin { "err", "nexterr" }
               /\ d.info = "ok" /\ d.launchpad
               /\ a[3] = FirstMidi(d.subs, 1) }

\* enumeration order: by card, then by device
Earlier(a, b) == a[1] < b[1] \/ (a[1] = b[1] /\ a[2] <= b[2])

---------------------------------------------------------------------------
(* The steps that run between list_mutex.lock() and list_mutex.unlock() *)

UnderListMutex ==
    \/ Create
    \/ FromJson
    \/ ShowConfigUi
    \/ GlobalSettings
    \/ Destroy
    \/ WGetDevice
    \/ WDispatch

\* the pad a trigger record is positioned on
PadOf(tr) == buttons[get_button(tr.column, tr.row).idx]

PadOfNext(tr) == buttons'[get_button(tr.column, tr.row).idx]

Positioned(tr) == tr.column \in 1 .. Columns /\ tr.row \in 1 .. Rows

---------------------------------------------------------------------------
(* Claims *)

\* C1 (as stated): in every reachable state every pad of the grid has
\* usage_count = 0 exactly when its stored color is black.
C1_Original ==
    \A i \in ButtonIdx :
        (buttons[i].usage_count = 0) <=> (ButtonColor(buttons[i]) = Black)

\* C1 (amended): whenever a step brings the usage_count of a pad from a
\* positive value to zero, the stored color of that pad is black after the step.
C1_ZeroMeansBlack ==
    [][ \A i \in ButtonIdx :
          (buttons[i].usage_count > 0 /\ buttons'[i].usage_count = 0)
              => ButtonColor(buttons'[i]) = Black ]_vars

\* C1 witness: destroy has just released the pad of the last trigger, which is
\* now unused and black.
C1_Witness ==
    /\ upc = "destroy_close"
    /\ Positioned(uop.arg)
    /\ PadOf(uop.arg).usage_count = 0
    /\ ButtonColor(PadOf(uop.arg)) = Black

\* C2: on one valid pad, n calls of add_button followed by at least n calls of
\* remove_button leave usage_count 0 and the color black, and in every order of
\* calls no usage_count is negative.
C2_ClaimRelease ==
    pf.kind = "grid" =>
        /\ \A i \in ButtonIdx : buttons[i].usage_count >= 0
        /\ (pf.ordered /\ pf.releases >= pf.claims) =>
              /\ PadOf(pf).usage_count = 0
              /\ ButtonColor(PadOf(pf)) = Black

\* C2 witness: two claims of pad (3,4), then three releases.
C2_Witness ==
    /\ pf.kind = "grid" /\ pf.column = 3 /\ pf.row = 4
    /\ pf.ordered /\ pf.claims = 2 /\ pf.releases = 3
    /\ PadOf(pf).usage_count = 0

\* C3 (as stated): when the two registered triggers are on the same pad and no
\* trigger has cue list control, destroying one leaves usage_count 1 and the
\* color the pad had (that of the remaining trigger); destroying a trigger that
\* is alone on its pad leaves usage_count 0 and the pad black.
C3_Original ==
    [][ \A t \in TIDs :
          ( /\ crashed' = "no"
            /\ InList(t)
            /\ trigger_list' = Remove(trigger_list, t)
            /\ Positioned(trig[t])
            /\ \A u \in TIDs : InList(u) => ~trig[u].use_for_cue_list )
          => LET same == { u \in TIDs : /\ u # t /\ InList(u)
                                        /\ trig[u].column = trig[t].column
                                        /\ trig[u].row = trig[t].row }
             IN  /\ same # { } =>
                       /\ PadOfNext(trig[t]).usage_count = 1
                       /\ ButtonColor(PadOfNext(trig[t])) = ButtonColor(PadOf(trig[t]))
                 /\ same = { } =>
                       /\ PadOfNext(trig[t]).usage_count = 0
                       /\ ButtonColor(PadOfNext(trig[t])) = Black ]_vars

\* C4 (as stated): when the destroy of the last trigger returns, the pad of
\* that trigger is black, both handles are released and ready is false, and
\* the worker thread has returned and has been joined.
C4_Original ==
    [][ (upc = "destroy_join" /\ upc' = "idle")
          => /\ Positioned(uop.arg) => ButtonColor(PadOfNext(uop.arg)) = Black
             /\ dev' = ClosedDevice
             /\ threads' = 0
             /\ midi_thread' = "none" ]_vars

\* C5: there is never more than one worker thread, and a worker thread is
\* started only by the create that makes the trigger list non-empty, when no
\* worker thread is left.
C5_OneWorker ==
    [][ /\ threads' <= 1
        /\ threads' > threads =>
              /\ threads = 0
              /\ trigger_list = << >>
              /\ Len(trigger_list') = 1 ]_vars

\* C5 witness: a second trigger was created while the worker of the first is
\* running, and there is still one worker.
C5_Witness ==
    /\ Len(trigger_list) = 2
    /\ thread_running
    /\ threads = 1
    /\ wpc = "L570"

\* C6 (as stated): every step that changes a pad or the trigger list, and every
\* read of the trigger list by the worker, runs with list_mutex held.
C6_Original ==
    [][ ( /\ crashed' = "no"
          /\ \/ buttons' # buttons
             \/ trigger_list' # trigger_list
             \/ WOuter )
        => UnderListMutex ]_vars

\* C7 (as stated): the handles and the ready flag of the device change only in
\* steps of the worker thread.
C7_Original ==
    [][ (crashed' = "no" /\ dev' # dev) => (WGetDevice \/ WClose) ]_vars

\* C8 (as stated): when the dispatch of an event ends, every trigger in the list
\* that is positioned on the pad of the event and whose polarity matches has had
\* its action run, unless the press was debounced for it.
C8_Original ==
    [][ (wpc = "L605" /\ wpc' = "L539" /\ crashed' = "no")
          => \A t \in TIDs :
                ( /\ InList(t)
                  /\ trig[t].column = wev.column /\ trig[t].row = wev.row
                  /\ trig[t].on_pressed = (wev.pressure > 0) )
                => (t \in fired' \/ t \in debounced') ]_vars

\* C9 (as stated): for an on_pressed trigger positioned on the pad of a press,
\* the action does not run when the press comes less than the debounce interval
\* after the last honored press on the pad, and runs when it comes more than
\* the interval after it.
C9_Original ==
    [][ (wpc = "L605" /\ crashed' = "no" /\ wev.pressure > 0)
          => LET t    == trigger_list[wk]
                 last == PadOf(wev).last_press_time
             IN  ( /\ trig[t].on_pressed
                   /\ trig[t].column = wev.column /\ trig[t].row = wev.row )
                 => /\ clock' - last < DebounceInterval => t \notin fired'
                    /\ clock' - last > DebounceInterval => t \in fired' ]_vars

\* C10: for every column and row in 1..9, address_to_col_row applied to
\* col_row_to_address(column, row) gives back (column, row).
C10_RoundTrip ==
    ( /\ pf.kind = "addr" /\ pf.stage = "output"
      /\ pf.column \in 1 .. Columns /\ pf.row \in 1 .. Rows )
    => pf.back = [ column |-> pf.column, row |-> pf.row ]

\* C10 witness: (3,4) has been converted to address 63 and back.
C10_Witness ==
    /\ pf.kind = "addr" /\ pf.stage = "output"
    /\ pf.column = 3 /\ pf.row = 4
    /\ pf.address = 63
    /\ pf.back = [ column |-> 3, row |-> 4 ]

\* C11: for every column and row in 1..9 and all r, g, b, the message of
\* midi_set_color has 13 bytes, byte 8 (counted from 0) is
\* (10 - row) * 10 + column, and bytes 9, 10, 11 are r, g, b halved and rounded
\* down, each in 0..127.
C11_SetColorBytes ==
    (pf.kind = "wire" /\ pf.stage = "set")
    => /\ lastMsg.kind = "set"
       /\ Len(lastMsg.bytes) = 13
       /\ lastMsg.bytes[9] = (10 - pf.row) * 10 + pf.column
       /\ 2 * lastMsg.bytes[10] \in { pf.r, pf.r - 1 }
       /\ 2 * lastMsg.bytes[11] \in { pf.g, pf.g - 1 }
       /\ 2 * lastMsg.bytes[12] \in { pf.b, pf.b - 1 }
       /\ \A i \in 10 .. 12 : lastMsg.bytes[i] \in 0 .. 127

\* C11 witness: pad (3,4) set to 255,128,0 gives address 63 and 127,64,0.
C11_Witness ==
    /\ pf.kind = "wire" /\ pf.stage = "set"
    /\ pf.column = 3 /\ pf.row = 4 /\ pf.r = 255 /\ pf.g = 128 /\ pf.b = 0
    /\ lastMsg.bytes[9] = 63
    /\ << lastMsg.bytes[10], lastMsg.bytes[11], lastMsg.bytes[12] >> = << 127, 64, 0 >>

\* C12 (as stated): the set-color message is the sequence
\* F0 00 20 29 02 0C 03 03 00 addr r/2 g/2 b/2 F7.
C12_Original ==
    (pf.kind = "wire" /\ pf.stage = "set")
    => lastMsg.bytes = << 240, 0, 32, 41, 2, 12, 3, 3, 0,
                          (10 - pf.row) * 10 + pf.column,
                          pf.r \div 2, pf.g \div 2, pf.b \div 2, 247 >>

\* C12 (amended): the set-color message is the 13-byte sequence
\* F0 00 20 29 02 0C 03 03 addr r/2 g/2 b/2 F7; no byte stands between the
\* second 03 and the address.
C12_SetColorFrame ==
    (pf.kind = "wire" /\ pf.stage = "set")
    => lastMsg.bytes = << 240, 0, 32, 41, 2, 12, 3, 3,
                          (10 - pf.row) * 10 + pf.column,
                          pf.r \div 2, pf.g \div 2, pf.b \div 2, 247 >>

\* C12 witness: pad (1,1) set to green is written as F0 .. 03 03 5B 00 7F 00 F7.
C12_Witness ==
    /\ pf.kind = "wire" /\ pf.stage = "set"
    /\ pf.column = 1 /\ pf.row = 1 /\ << pf.r, pf.g, pf.b >> = Green
    /\ lastMsg.bytes = << 240, 0, 32, 41, 2, 12, 3, 3, 91, 0, 127, 0, 247 >>

\* C13: the refresh message has 413 bytes, starts with F0 00 20 29 02 0C 03,
\* ends with F7, and holds one 5-byte record per pad, rows 1..9 and within a
\* row columns 1..9, each starting with 03 and the address of the pad.
C13_RefreshLayout ==
    (pf.kind = "wire" /\ pf.stage = "refreshed")
    => /\ lastMsg.kind = "refresh"
       /\ Len(lastMsg.bytes) = 413
       /\ SubSeq(lastMsg.bytes, 1, 7) = << 240, 0, 32, 41, 2, 12, 3 >>
       /\ lastMsg.bytes[413] = 247
       /\ \A row \in 1 .. 9 : \A column \in 1 .. 9 :
             /\ lastMsg.bytes[RecordAt(column, row) + 1] = 3
             /\ lastMsg.bytes[RecordAt(column, row) + 2] = (10 - row) * 10 + column

\* C13 witness: a refresh was written whose record for row 4, column 3 follows
\* the first 152 bytes and starts with 03 3F.
C13_Witness ==
    /\ pf.kind = "wire" /\ pf.stage = "refreshed"
    /\ pf.column = 3 /\ pf.row = 4
    /\ Len(lastMsg.bytes) = 413
    /\ RecordAt(3, 4) = 152
    /\ lastMsg.bytes[153] = 3 /\ lastMsg.bytes[154] = 63

\* C14 (as stated): in the refresh message the three color bytes of the record
\* of a pad are the components the pad was last set to, halved and rounded
\* down, and lie in 0..127.
C14_Original ==
    (pf.kind = "wire" /\ pf.stage = "refreshed")
    => LET at == RecordAt(pf.column, pf.row)
       IN  /\ lastMsg.bytes[at + 3] = pf.r \div 2
           /\ lastMsg.bytes[at + 4] = pf.g \div 2
           /\ lastMsg.bytes[at + 5] = pf.b \div 2
           /\ \A i \in 3 .. 5 : lastMsg.bytes[at + i] \in 0 .. 127

\* C15 (as stated): every registered trigger is at (0,0) or has its column and
\* its row in 1..9, and every global button has its column and its row in 1..9.
C15_Original ==
    crashed = "no" =>
        /\ \A t \in TIDs :
              InList(t) => \/ (trig[t].column = 0 /\ trig[t].row = 0)
                           \/ Positioned(trig[t])
        /\ \A i \in DOMAIN global_buttons : Positioned(global_buttons[i])

\* C16: whenever the trigger list is not empty there is exactly one worker
\* thread and it is inside its loop: it has not gone on to the close_device
\* after the loop, to `thread_running = false` or to its return, whatever the
\* device answered.
C16_WorkerAlive ==
    (crashed = "no" /\ trigger_list # << >>)
    => /\ threads = 1
       /\ thread_running
       /\ wpc \in { "L539", "L543", "L570", "rclose", "L604", "L605" }

\* C16 witness: triggers are registered, the device failed (the worker had a
\* device, which is closed again) and the worker is about to call get_device.
C16_Witness ==
    /\ scenario = "faults" /\ trigger_list # << >>
    /\ threads = 1 /\ wpc = "L543" /\ wdev /\ dev = ClosedDevice

\* C17 (as stated): a get_device call of the worker in which snd_rawmidi_open
\* fails, or in which no poll descriptor is returned, leaves ready false and no
\* handle open, uses no handle that is not open and leaves the buttons as
\* they were.
C17_Original ==
    [][ \A a \in { << "openfail", 0 >>, << "openfail", 1 >>, << "nopoll", 0 >> } :
          LET res == get_device(Mem, dev, trigger_list, global_buttons, TRUE,
                                a[1], a[2])
          IN  ( /\ WGetDevice /\ ~dev.ready
                /\ dev' = res.dev
                /\ buttons' = res.G.buttons
                /\ uac' = res.G.uac /\ oob' = res.G.oob
                /\ crashed' = (IF res.G.segv THEN "segv" ELSE "no") )
              => /\ ~dev'.ready
                 /\ dev'.handle_in # "open" /\ dev'.handle_out # "open"
                 /\ ~uac'
                 /\ buttons' = buttons ]_vars

\* C20 (as stated): close_device on a device whose handle_out is not NULL
\* stores black in every button and writes the all-black refresh to a handle
\* that is open; afterwards ready is false and both handles are NULL; and
\* close_device on a device that is not ready writes nothing, touches no handle
\* that is not open and leaves the buttons as they were.
C20_Original ==
    [][ ((DestroyClose \/ WClose) /\ crashed' = "no")
        => /\ dev.handle_out # "null" =>
                 /\ \A i \in ButtonIdx : ButtonColor(buttons'[i]) = Black
                 /\ lastMsg'.kind = "refresh"
                 /\ Len(lastMsg'.bytes) = 413
                 /\ \A i \in ButtonIdx : \A j \in 3 .. 5 :
                        lastMsg'.bytes[7 + 5 * i + j] = 0
                 /\ ~uac'
           /\ dev' = ClosedDevice
           /\ ~dev.ready => (lastMsg' = NoMsg /\ buttons' = buttons /\ ~uac') ]_vars

\* C18 (as stated): the close_device that follows a failed read of the ready
\* device leaves the device closed, and from then on, unless the trigger list
\* becomes empty or the process dies, the device is eventually ready again,
\* with both handles open and the buttons rebuilt from the registered triggers.
C18_Original ==
    /\ [][ (wpc = "rclose" /\ dev = ReadyDevice /\ WClose /\ crashed' = "no")
              => dev' = ClosedDevice ]_vars
    /\ (wpc = "rclose" /\ dev = ReadyDevice)
          ~> \/ (wpc # "rclose" /\ dev = ReadyDevice /\ Rebuilt)
             \/ trigger_list = << >>
             \/ crashed # "no"

\* C18 (what the code keeps of it): after the failed read the worker closes the
\* device and, unless the trigger list becomes empty or the process dies,
\* device.ready is eventually set again with the buttons rebuilt from the
\* registered triggers; the handles need not be open then.
C18_ReadyFlag ==
    /\ [][ (wpc = "rclose" /\ dev = ReadyDevice /\ WClose /\ crashed' = "no")
              => dev' = ClosedDevice ]_vars
    /\ (wpc = "rclose" /\ dev = ReadyDevice)
          ~> \/ (wpc # "rclose" /\ dev.ready /\ Rebuilt)
             \/ trigger_list = << >>
             \/ crashed # "no"

\* C19 (as stated): after poll() has returned an error the worker closes the
\* device, so that its next pass through the loop head goes to get_device
\* and does not poll again.
C19_Original ==
    [][ ( /\ poll_result < 0 /\ WOuter
          /\ crashed' = "no" /\ trigger_list # << >> )
        => wpc' = "L543" ]_vars

\* a step that is a call of stack_launchpad_trigger_get_device(true): the
\* worker's at line 543, or the first step of from_json, show_config_ui and
\* global_settings_clicked
GetDeviceStep ==
    \/ wpc = "L543" /\ wpc' = "L539"
    \/ upc = "idle" /\ upc' \in { "json_add", "cfg_apply", "set_update" }

\* C21 (as stated): a get_device call that opens the device leaves it ready
\* and has written the 413-byte refresh message of the button array as it
\* then is; a get_device call on a ready device changes neither the device nor
\* the buttons and writes nothing.
C21_Original ==
    [][ (GetDeviceStep /\ crashed' = "no")
        => /\ (~dev.ready /\ dev' = ReadyDevice)
                 => lastMsg' = [ kind |-> "refresh", bytes |-> encode_full_refresh(buttons') ]
           /\ dev.ready => (dev' = dev /\ buttons' = buttons /\ lastMsg' = NoMsg) ]_vars

\* C22 (as stated): discovery finds a device exactly when some subdevice
\* qualifies, and then returns the address of the first one in enumeration
\* order; a card whose control device fails to open, or whose enumeration
\* fails, does not keep it from the qualifying subdevices of later cards.
C22_Original ==
    (pf.kind = "bus" /\ pf.stage = "done")
        => IF Qualifying(pf.cards) = { }
           THEN ~pf.result.found
           ELSE /\ pf.result.found
                /\ pf.result.address \in Qualifying(pf.cards)
                /\ \A a \in Qualifying(pf.cards) : Earlier(pf.result.address, a)

\* a step that ends with stack_launchpad_trigger_update_buttons: a get_device
\* call that sets device.ready, the update after the global settings dialog,
\* and the config dialog when the cue list flag changed
RebuildStep ==
    \/ ~dev.ready /\ dev'.ready
    \/ upc = "set_update" /\ upc' = "idle"
    \/ /\ upc = "cfg_apply" /\ upc' = "idle"
       /\ trig[uop.t].use_for_cue_list # uop.arg.use_for_cue_list

\* the triggers of list
Registered(list, tr) == { t \in DOMAIN tr : \E k \in 1 .. Len(list) : list[k] = t }

\* the pads some registered trigger is positioned on, or some global button
\* when a registered trigger has use_for_cue_list
ClaimedPads(list, tr, gb) ==
    { get_button(tr[t].column, tr[t].row).idx :
        t \in { u \in Registered(list, tr) : Positioned(tr[u]) } }
    \cup { get_button(gb[k].column, gb[k].row).idx :
             k \in { j \in DOMAIN gb : /\ Positioned(gb[j])
                                        /\ \E t \in Registered(list, tr) :
                                              tr[t].use_for_cue_list } }

\* the number of claims on pad i: the triggers of list positioned on it, and
\* for every trigger of list with use_for_cue_list the global buttons on it
ExpectedUsage(list, tr, gb, i) ==
    LET reg  == Registered(list, tr)
        On(x) == Positioned(x) /\ get_button(x.column, x.row).idx = i
        own  == Cardinality({ t \in reg : On(tr[t]) })
        cue  == Cardinality({ t \in reg : tr[t].use_for_cue_list })
        glob == Cardinality({ k \in DOMAIN gb : On(gb[k]) })
    IN  own + cue * glob

PadIndex(tr) == IF Positioned(tr) THEN get_button(tr.column, tr.row).idx ELSE -1

\* the stored color of a button as the unsigned bytes it was set from
StoredColor(b) == << ToUInt8(b.r), ToUInt8(b.g), ToUInt8(b.b) >>

C25_Claim ==
    [][ (upc = "json_add" /\ upc' = "idle" /\ crashed' = "no" /\ Positioned(trig[uop.t]))
        => LET t     == trig[uop.t]
               p     == get_button(t.column, t.row).idx
               color == << t.r, t.g, t.b >>
           IN  /\ StoredColor(buttons'[p]) = color
               /\ buttons'[p].usage_count = buttons[p].usage_count + 1
               /\ \A u \in TIDs :
                     IF InList(u) /\ trig[u].column = t.column /\ trig[u].row = t.row
                     THEN /\ << trig'[u].r, trig'[u].g, trig'[u].b >> = color
                          /\ trig'[u].column = t.column /\ trig'[u].row = t.row
                     ELSE trig'[u] = trig[u] ]_vars

\* C25 witness: from_json has loaded a green trigger for pad (3,4), which an
\* orange trigger already claims, and is about to call add_button.
C25_Witness ==
    /\ crashed = "no" /\ upc = "json_add"
    /\ trig[uop.t] = TriggerInput(3, 4, Green, TRUE, FALSE)
    /\ \E u \in TIDs \ { uop.t } :
          InList(u) /\ trig[u] = TriggerInput(3, 4, Orange, FALSE, FALSE)
    /\ buttons[get_button(3, 4).idx].usage_count >= 1

\* the registered triggers positioned at (column, row), and the one the loop
\* over trigger_list comes to last
OwnersAt(column, row) ==
    { k \in 1 .. Len(trigger_list) :
        trig[trigger_list[k]].column = column /\ trig[trigger_list[k]].row = row }

LastOwnerAt(column, row) == trig[trigger_list[SetMax(OwnersAt(column, row))]]

CueListRegistered == \E t \in TIDs : InList(t) /\ trig[t].use_for_cue_list

\* the pad of the event holds color c after the step, and the step has
\* written the set-color message of c last if the device is ready
RestoredTo(c) ==
    /\ StoredColor(buttons'[get_button(wev.column, wev.row).idx]) = c
    /\ dev.ready =>
          lastMsg' = [ kind  |-> "set",
                       bytes |-> encode_set_color(wev.column, wev.row, c[1], c[2], c[3]) ]

\* C26: in the dispatch of a release event (pressure 0) the pass of the loop
\* for a trigger positioned on the pad stores the trigger's color in the pad
\* and writes its set-color message, and the pass for a cue-list trigger that
\* is not on the pad does so with the color of the global button at the pad.
\* When the loop ends, the pad holds the color of the trigger positioned on it
\* if it is not also a global button in use, and the color of the global
\* button if a cue-list trigger is registered and no trigger is positioned on
\* it.  last_press_time plays no part.
C26_ReleaseRestores ==
    [][ ( /\ wpc = "L605" /\ wpc' \in { "L605", "L539" } /\ crashed' = "no"
          /\ wev.pressure = 0 /\ Positioned(wev) )
        => LET p      == get_button(wev.column, wev.row).idx
               M      == GlobalMatches(global_buttons, wev.column, wev.row)
               t      == trig[trigger_list[wk]]
               here   == t.column = wev.column /\ t.row = wev.row
               global == CueListRegistered /\ M # { }
               owned  == OwnersAt(wev.column, wev.row) # { }
           IN  /\ here => RestoredTo(<< t.r, t.g, t.b >>)
               /\ (t.use_for_cue_list /\ M # { } /\ ~here)
                     => LET b == global_buttons[SetMax(M)]
                        IN  RestoredTo(<< b.r, b.g, b.b >>)
               /\ (wpc' = "L539" /\ owned /\ ~global)
                     => LET o == LastOwnerAt(wev.column, wev.row)
                        IN  StoredColor(buttons'[p]) = << o.r, o.g, o.b >>
               /\ (wpc' = "L539" /\ global /\ ~owned)
                     => LET b == global_buttons[SetMax(M)]
                        IN  StoredColor(buttons'[p]) = << b.r, b.g, b.b >> ]_vars

\* C26 witness: pad (3,4) is the pad of a global button and of no trigger, a
\* cue-list trigger is registered, the pad was pressed (honored, and blanked),
\* pressed again inside the debounce interval, and its release is now being
\* dispatched.
C26_Witness ==
    /\ crashed = "no" /\ wpc = "L605" /\ wk = 1 /\ dev = ReadyDevice
    /\ wev = [ column |-> 3, row |-> 4, pressure |-> 0 ]
    /\ trig[trigger_list[1]].use_for_cue_list
    /\ OwnersAt(3, 4) = { }
    /\ GlobalMatches(global_buttons, 3, 4) # { }
    /\ ButtonColor(buttons[get_button(3, 4).idx]) = Black
    /\ buttons[get_button(3, 4).idx].last_press_time = StartTime + ShortDelay
    /\ buttons[GlobalPressIndex(3, 4)].last_press_time = StartTime + 2 * ShortDelay
    /\ clock = StartTime + 3 * ShortDelay

\* the dialog answered with OK, the process surviving the step: the only
\* such step that spends budget.settings
SettingsStep ==
    upc = "idle" /\ budget'.settings = budget.settings + 1 /\ crashed' = "no"

\* C27: a global-settings dialog answered with OK either sets global_buttons
\* to the submitted table, all six entries inside 1..9 x 1..9, and goes on to
\* the rebuild (after which the usage counts are those of the new table), or
\* leaves global_buttons and the grid exactly as they were; global_buttons
\* is always the initial table or a whole accepted submission, never a table
\* with only some entries of one submission.
C27_AtomicApply ==
    /\ [][ SettingsStep
            => \/ /\ upc' = "set_update"
                  /\ global_buttons' \in SettingsInputs
                  /\ \A i \in DOMAIN global_buttons' : Positioned(global_buttons'[i])
               \/ /\ upc' = "idle"
                  /\ global_buttons' = global_buttons
                  /\ buttons' = buttons /\ trig' = trig /\ dev' = dev
                  /\ lastMsg' = NoMsg ]_vars
    /\ [](global_buttons \in { DefaultGlobalButtons } \cup SettingsInputs)
    /\ [][ (upc = "set_update" /\ upc' = "idle" /\ crashed' = "no")
            => /\ global_buttons' = global_buttons
               /\ \A i \in ClaimedPads(trigger_list', trig', global_buttons') :
                      buttons'[i].usage_count
                        = ExpectedUsage(trigger_list', trig', global_buttons', i) ]_vars

\* C27 witness: a dialog was answered with OK and refused (the budget is
\* spent and the table is still the default one), with a cue-list trigger
\* registered and the device open
C27_Witness ==
    /\ scenario = "presses" /\ upc = "idle" /\ crashed = "no"
    /\ budget.settings = MaxSettings
    /\ global_buttons = DefaultGlobalButtons
    /\ dev.ready
    /\ \E t \in Registered(trigger_list, trig) : trig[t].use_for_cue_list

\* no operation is in progress on either thread
Quiescent == crashed = "no" /\ upc = "idle" /\ list_mutex = "free"

\* C28 (as stated): whenever no operation is in progress, the usage_count of
\* every pad is the number of registered triggers positioned on it plus, for
\* each registered trigger with use_for_cue_list, the number of global
\* buttons positioned on it.
C28_Original ==
    Quiescent
      => \A i \in ButtonIdx :
            buttons[i].usage_count
              = ExpectedUsage(trigger_list, trig, global_buttons, i)

\* C29 (as stated): no step reads, writes, drains or closes a device handle
\* that is not open, and whenever ready is true both handles are open.
C29_Original ==
    crashed = "no"
      => /\ ~uac
         /\ dev.ready => (dev.handle_in = "open" /\ dev.handle_out = "open")

\* C30 (as stated): no step accesses the button array outside buttons[0..80],
\* and for the position of every registered trigger and of every global
\* button that lies outside 1..9 x 1..9, the unset position (0,0) included,
\* get_button returns NULL.
C30_Original ==
    crashed = "no"
      => /\ ~oob
         /\ \A t \in Registered(trigger_list, trig) :
               ~Positioned(trig[t]) => get_button(trig[t].column, trig[t].row).null
         /\ \A k \in DOMAIN global_buttons :
               ~Positioned(global_buttons[k])
                 => get_button(global_buttons[k].column, global_buttons[k].row).null

\* the address bytes of a note-on or control-change message
AddressBytes == 0 .. 127

\* C31 (as stated): no registered trigger whose position is (0,0) has its
\* action invoked by an event, whatever its address byte and pressure.
C31_Original ==
    \A t \in fired :
        t \in Registered(trigger_list, trig)
          => ~(trig[t].column = 0 /\ trig[t].row = 0)

\* the addresses that address_to_col_row maps to the unset position
UnsetAddresses ==
    { a \in AddressBytes : address_to_col_row(a) = [ column |-> 0, row |-> 0 ] }

\* C32 (as stated): the address and the pressure of every event dispatched
\* from a chunk of n <= 32 bytes are bytes of the chunk: they lie at positions
\* below n, hence inside the buffer, and are the two bytes after the status
\* byte.
C32_Original ==
    (pf.kind = "chunk" /\ pf.dispatched > 0)
      => /\ pf.last.at + 2 < Len(pf.buf)
         /\ pf.last.at + 2 < BufSize
         /\ pf.last.address = pf.buf[pf.last.at + 2]
         /\ pf.last.pressure = pf.buf[pf.last.at + 3]

\* a pass of the dispatch loop for a press on a pad some global button is
\* positioned on, the process surviving it
GlobalPressPass ==
    /\ wpc = "L605" /\ (wpc' # "L605" \/ wk' # wk)
    /\ wev.pressure > 0
    /\ GlobalMatches(global_buttons, wev.column, wev.row) # { }
    /\ crashed' = "no"

\* C33 (as stated): a press on a global-button pad, honored or debounced,
\* leaves the last_press_time of every pad other than the pressed one as it
\* was.
C33_Original ==
    [][ GlobalPressPass
          => \A i \in ButtonIdx :
                i # get_button(wev.column, wev.row).idx
                  => buttons'[i].last_press_time = buttons[i].last_press_time ]_vars

\* the LED records of a message: a set-color message is the header and one
\* record << 3, address, r, g, b >>, a refresh is the header and 81 of them
LedRecords(bytes) == 0 .. ((Len(bytes) - 8) \div 5 - 1)

\* the color the device shows on the pad with address a after the messages
\* out, << >> if none of them names the pad
LastSent(out, a) ==
    LET J == { j \in 1 .. Len(out) :
                 \E k \in LedRecords(out[j]) : out[j][9 + 5 * k] = a }
    IN  IF J = { } THEN << >>
        ELSE LET m == out[SetMax(J)]
                 k == SetMax({ x \in LedRecords(m) : m[9 + 5 * x] = a })
             IN  << m[10 + 5 * k], m[11 + 5 * k], m[12 + 5 * k] >>

\* the bytes midi_set_color sends for the stored color of a button
SentColor(b) ==
    << ToUInt8(b.r) \div 2, ToUInt8(b.g) \div 2, ToUInt8(b.b) \div 2 >>

\* a step that completes a config update or a settings apply on a link
\* that is Ready before and after it
UiUpdateOnReady ==
    /\ upc \in { "cfg_apply", "set_update" } /\ upc' = "idle"
    /\ dev = ReadyDevice /\ dev' = ReadyDevice
    /\ crashed' = "no"

\* the messages that step writes to the device
UiUpdateOut ==
    IF upc = "set_update"
    THEN update_buttons(Mem, dev, trigger_list, global_buttons).out
    ELSE config_apply(Mem, dev, trigger_list, global_buttons, uop.t, uop.arg).out

\* C34 (as stated), for the steps that complete a config update or a
\* settings apply on a Ready link: the device shows the stored color of every
\* pad before and after, so every pad whose stored color the step has changed
\* was sent its new color, the pads a rebuild resets to black included.
C34_Original ==
    [][ UiUpdateOnReady
          => \A column \in 1 .. Columns, row \in 1 .. Rows :
                LET i == get_button(column, row).idx
                IN  SentColor(buttons'[i]) # SentColor(buttons[i])
                      => LastSent(UiUpdateOut, col_row_to_address(column, row))
                           = SentColor(buttons'[i]) ]_vars

====
